---- MODULE Spec2Model ----
(***************************************************************************)
(* A model of the Goodfire invoice generator (src/app.py): the Streamlit   *)
(* script that reads a Close.com CSV export, filters its leads by status,  *)
(* listing date and MLS number, previews the result and renders the        *)
(* invoice table and its total.                                            *)
(*                                                                         *)
(* A str is a sequence of one-character strings, so that strip, split, in  *)
(* and join are computed character by character as Python computes them.   *)
(* A missing CSV cell is pandas' NaN.                                      *)
(***************************************************************************)
EXTENDS Integers, Sequences, FiniteSets, TLC

VARIABLES
    uploaded_file,      \* the file in st.file_uploader, or none
    widgets,            \* the values of the script's input widgets
    infer_format,       \* whether the installed pandas parses a column with one inferred format
    out,                \* what the last run of the script put on the page
    arg_row,            \* the row handed to one iteration of generate_invoice_pdf's loop
    rendered,           \* the outcome of that iteration
    n_listings,         \* len(filtered_df) where a total is computed
    price_per_listing,  \* the unit price, a float
    preview_total,      \* total_amount of the preview (line 263)
    invoice_total       \* total_amount of generate_invoice_pdf (line 97)

vars == <<uploaded_file, widgets, infer_format, out, arg_row, rendered,
          n_listings, price_per_listing, preview_total, invoice_total>>

appVars == <<uploaded_file, widgets, infer_format, out>>
rowVars == <<arg_row, rendered>>
totalVars == <<n_listings, price_per_listing, preview_total, invoice_total>>

----------------------------------------------------------------------------
(* Bounds of the model.                                                    *)

MaxRows == 2        \* rows of an uploaded CSV
MaxParts == 3       \* pieces a display name is put together from
MaxCount == 12      \* listings billed where a total is computed

----------------------------------------------------------------------------
(* Python str operations.                                                  *)

Whitespace == {" "}

RECURSIVE lstrip(_)
lstrip(s) ==
    IF s # <<>> /\ Head(s) \in Whitespace THEN lstrip(Tail(s)) ELSE s

RECURSIVE rstrip(_)
rstrip(s) ==
    IF s # <<>> /\ s[Len(s)] \in Whitespace
    THEN rstrip(SubSeq(s, 1, Len(s) - 1))
    ELSE s

\* str.strip()
strip(s) == rstrip(lstrip(s))

\* str.find(sep, i - 1) + 1: the first place at or after i where sep starts, 0 if none
RECURSIVE find(_, _, _)
find(s, sep, i) ==
    IF i + Len(sep) - 1 > Len(s) THEN 0
    ELSE IF SubSeq(s, i, i + Len(sep) - 1) = sep THEN i
    ELSE find(s, sep, i + 1)

\* sep in s
contains(s, sep) == find(s, sep, 1) # 0

\* str.split(sep): the pieces of s between the occurrences of sep, left to right
RECURSIVE split(_, _)
split(s, sep) ==
    LET i == find(s, sep, 1)
    IN  IF i = 0 THEN <<s>>
        ELSE <<SubSeq(s, 1, i - 1)>> \o split(SubSeq(s, i + Len(sep), Len(s)), sep)

\* the length of the run of non-whitespace characters s starts with
RECURSIVE token_len(_)
token_len(s) ==
    IF s = <<>> \/ Head(s) \in Whitespace THEN 0 ELSE 1 + token_len(Tail(s))

\* str.split() without a separator: the whitespace-delimited tokens of s
RECURSIVE split_ws(_)
split_ws(s) ==
    LET t == lstrip(s)
        k == token_len(t)
    IN  IF t = <<>> THEN <<>>
        ELSE <<SubSeq(t, 1, k)>> \o split_ws(SubSeq(t, k + 1, Len(t)))

\* sep.join(parts)
RECURSIVE join(_, _)
join(sep, parts) ==
    IF parts = <<>> THEN <<>>
    ELSE IF Len(parts) = 1 THEN parts[1]
    ELSE parts[1] \o sep \o join(sep, Tail(parts))

DigitChars == <<"0", "1", "2", "3", "4", "5", "6", "7", "8", "9">>

IsDigit(c) == \E i \in 1..Len(DigitChars) : DigitChars[i] = c

DigitVal(c) == (CHOOSE i \in 1..Len(DigitChars) : DigitChars[i] = c) - 1

IsNumber(s) == s # <<>> /\ \A i \in 1..Len(s) : IsDigit(s[i])

\* int(s) of a string of digits
RECURSIVE int(_)
int(s) ==
    IF s = <<>> THEN 0
    ELSE 10 * int(SubSeq(s, 1, Len(s) - 1)) + DigitVal(s[Len(s)])

\* str(n) of a natural number: its decimal digits, no padding
RECURSIVE str_int(_)
str_int(n) ==
    IF n < 10 THEN <<DigitChars[n + 1]>>
    ELSE str_int(n \div 10) \o <<DigitChars[(n % 10) + 1]>>

----------------------------------------------------------------------------
(* pandas missing values and timestamps.                                   *)

\* the value pd.read_csv gives an empty cell
NaN == <<"NaN">>

\* pd.notna
notna(x) == x # NaN

\* pd.NaT; a Timestamp is its calendar date (the time of day is never read)
NaT == [year |-> 0, month |-> 0, day |-> 0]

IsLeap(y) == (y % 4 = 0 /\ y % 100 # 0) \/ y % 400 = 0

DaysInMonth(y, m) ==
    IF m = 2 THEN (IF IsLeap(y) THEN 29 ELSE 28)
    ELSE IF m \in {4, 6, 9, 11} THEN 30 ELSE 31

Timestamp(y, m, d) ==
    IF m \in 1..12 /\ d >= 1 /\ d <= DaysInMonth(y, m)
    THEN [year |-> y, month |-> m, day |-> d]
    ELSE NaT

\* The date formats of the model's cells. pandas reads more formats than
\* these three; the cells of the model are strings that pandas and these
\* parsers read alike.
FmtISO == "%Y-%m-%d"
FmtISOTime == "%Y-%m-%d %H:%M:%S"
FmtUS == "%m/%d/%Y"
FmtNone == "None"

\* the fields of "2025-03-07"
ISOFields(f) ==
    IF /\ Len(f) = 3
       /\ \A i \in 1..3 : IsNumber(f[i])
       /\ Len(f[1]) = 4 /\ Len(f[2]) = 2 /\ Len(f[3]) = 2
    THEN Timestamp(int(f[1]), int(f[2]), int(f[3]))
    ELSE NaT

ParseISO(s) == ISOFields(split(s, <<"-">>))

\* the fields of "10:00:00"
TimeFields(f) ==
    /\ Len(f) = 3
    /\ \A i \in 1..3 : IsNumber(f[i]) /\ Len(f[i]) = 2
    /\ int(f[1]) < 24 /\ int(f[2]) < 60 /\ int(f[3]) < 60

\* the date and the time of "2025-03-07 10:00:00"
ISOTimeFields(f) ==
    IF Len(f) = 2 /\ TimeFields(split(f[2], <<":">>)) THEN ParseISO(f[1]) ELSE NaT

ParseISOTime(s) == ISOTimeFields(split(s, <<" ">>))

\* the fields of "03/07/2025" and "3/7/2025", the month first
USFields(f) ==
    IF /\ Len(f) = 3
       /\ \A i \in 1..3 : IsNumber(f[i])
       /\ Len(f[1]) \in 1..2 /\ Len(f[2]) \in 1..2 /\ Len(f[3]) = 4
    THEN Timestamp(int(f[3]), int(f[1]), int(f[2]))
    ELSE NaT

ParseUS(s) == USFields(split(s, <<"/">>))

\* datetime.strptime(s, fmt), NaT where s does not match fmt
strptime(s, fmt) ==
    IF fmt = FmtISO THEN ParseISO(s)
    ELSE IF fmt = FmtISOTime THEN ParseISOTime(s)
    ELSE IF fmt = FmtUS THEN ParseUS(s)
    ELSE NaT

\* pandas' guess_datetime_format: the format one string is written in
guess_datetime_format(s) ==
    IF ParseISO(s) # NaT THEN FmtISO
    ELSE IF ParseISOTime(s) # NaT THEN FmtISOTime
    ELSE IF ParseUS(s) # NaT THEN FmtUS
    ELSE FmtNone

\* One string parsed on its own: NaT where it is no date.
parse_one(s) == strptime(s, guess_datetime_format(s))

\* pandas reads "" as a missing date
IsNullDate(x) == x = NaN \/ x = <<>>

\* Timestamp.strftime('%-m/%-d/%Y'): month/day/year without leading zeros
strftime(ts) ==
    str_int(ts.month) \o <<"/">> \o str_int(ts.day) \o <<"/">> \o str_int(ts.year)

----------------------------------------------------------------------------
(* generate_invoice_pdf: one iteration of the loop over filtered_df.       *)
(* A row is a record of its cells; the fields stand for the columns        *)
(*   display_name    'display_name'                                        *)
(*   status_label    'primary_opportunity_status_label'                    *)
(*   listing_date    'custom.Asset_MLS_Listing_Date'                       *)
(*   mls             'custom.Asset_MLS#'                                   *)
(*   state, county, apn   'custom.All_State', '...County', '...APN'        *)

NoError == "none"

\* Line 56: pd.to_datetime of one cell: NaT for "", and NaT here also where
\* the call raises, the string being no date
to_datetime_cell(date_listed) ==
    IF IsNullDate(date_listed) THEN NaT ELSE parse_one(date_listed)

\* Line 59, the except branch: to_datetime raised, or strftime did on NaT.
\* split()[0] raises IndexError when the string has no token.
DateFallback(date_listed, tokens) ==
    IF date_listed # <<>>
    THEN IF tokens = <<>>
         THEN [error |-> "IndexError", date_str |-> <<>>]
         ELSE [error |-> NoError, date_str |-> tokens[1]]
    ELSE [error |-> NoError, date_str |-> <<>>]

\* Lines 53-61
DateCellOf(date_listed, date_obj) ==
    IF notna(date_listed)
    THEN IF date_obj # NaT
         THEN [error |-> NoError, date_str |-> strftime(date_obj)]
         ELSE DateFallback(date_listed, split_ws(date_listed))
    ELSE [error |-> NoError, date_str |-> <<>>]

\* Lines 52-61: the date cell
DateCell(date_listed) == DateCellOf(date_listed, to_datetime_cell(date_listed))

\* Line 63
MlsNumber(mls) == IF notna(mls) THEN mls ELSE <<>>

APN == <<"A", "P", "N">>

\* Lines 73-76 without the strip()
BaseName_NoStrip(display_name) ==
    IF contains(display_name, APN)
    THEN split(display_name, APN)[1]
    ELSE display_name

\* Lines 73-76, for a display_name that is a str
BaseName(display_name) ==
    IF contains(display_name, APN)
    THEN strip(split(display_name, APN)[1])
    ELSE display_name

\* "pd.notna(x) and x" of a cell: present and not the empty string
Truthy(x) == notna(x) /\ x # <<>>

\* Lines 66-88
PropertyParts(r, base_name) ==
    (IF Truthy(r.state) THEN <<r.state>> ELSE <<>>)
    \o (IF Truthy(r.county) THEN <<r.county>> ELSE <<>>)
    \o (IF base_name # <<>> THEN <<base_name>> ELSE <<>>)
    \o (IF Truthy(r.apn) THEN <<APN \o <<"#", " ">> \o r.apn>> ELSE <<>>)

Raised(e) ==
    [error |-> e, date_str |-> <<>>, mls_number |-> <<>>, base_name |-> <<>>,
     property_parts |-> <<>>, property_desc |-> <<>>]

\* Lines 90-94: property_desc and the cells of the row
Cells(date_str, mls_number, base_name, property_parts) ==
    [error |-> NoError, date_str |-> date_str, mls_number |-> mls_number,
     base_name |-> base_name, property_parts |-> property_parts,
     property_desc |-> join(<<" ">>, property_parts)]

\* Lines 63-94, the base name known
PropertyCells(r, date_str, base_name) ==
    Cells(date_str, MlsNumber(r.mls), base_name, PropertyParts(r, base_name))

\* Lines 52-94, the date cell known. 'APN' in display_name raises
\* TypeError when display_name is NaN, a float.
RowCells(r, date_cell) ==
    IF date_cell.error # NoError THEN Raised(date_cell.error)
    ELSE IF ~notna(r.display_name) THEN Raised("TypeError")
    ELSE PropertyCells(r, date_cell.date_str, BaseName(r.display_name))

\* Lines 50-94: the cells of one row (the fourth, the unit price, is the
\* same in every row), or the exception the iteration raises
TableRow(r) == RowCells(r, DateCell(r.listing_date))

----------------------------------------------------------------------------
(* The rows one iteration is tried on.                                     *)

NamePieces == {APN, <<"A", "P">>, <<" ">>, <<"x">>}

\* every string put together from at most k pieces
RECURSIVE Concats(_)
Concats(k) ==
    IF k = 0 THEN {<<>>}
    ELSE Concats(k - 1) \cup {p \o q : p \in Concats(k - 1), q \in NamePieces}

DisplayNames == Concats(MaxParts) \cup {NaN}

DateCells ==
    { NaN,
      <<>>,
      <<" ">>,
      <<"T", "B", "D">>,
      <<"T", "B", "D", " ", "s", "o", "o", "n">>,
      <<"2", "0", "2", "5", "-", "0", "3", "-", "0", "7">>,
      <<"2", "0", "2", "5", "-", "0", "3", "-", "0", "7", " ",
        "1", "0", ":", "0", "0", ":", "0", "0">>,
      <<"1", "2", "/", "3", "1", "/", "2", "0", "2", "4">>,
      <<"3", "/", "7", "/", "2", "0", "2", "5">> }

StateCells == {NaN, <<"T", "X">>, <<" ", "T", "X", " ">>}
CountyCells == {NaN, <<"P", "o", "l", "k">>}
ApnCells == {NaN, <<>>, <<"1", "2", "-", "3">>}
MlsCells == {NaN, <<"M", "7">>}

RowInputs ==
    [display_name : DisplayNames, status_label : {NaN}, listing_date : DateCells,
     mls : MlsCells, state : StateCells, county : CountyCells, apn : ApnCells]

NoRow ==
    [display_name |-> NaN, status_label |-> NaN, listing_date |-> NaN,
     mls |-> NaN, state |-> NaN, county |-> NaN, apn |-> NaN]

\* the date cell of the row, and with it the cells of the row
Rendered(r, date_cell) ==
    [done |-> TRUE, date_cell |-> date_cell, cells |-> RowCells(r, date_cell)]

Pending ==
    [done |-> FALSE, date_cell |-> [error |-> NoError, date_str |-> <<>>],
     cells |-> Raised(NoError)]

----------------------------------------------------------------------------
(* The uploaded CSV and the widgets of the page.                           *)

Listed == <<"L", "i", "s", "t", "e", "d">>
UnderContract == <<"U", "n", "d", "e", "r", " ", "C", "o", "n", "t", "r", "a", "c", "t">>
Purchased == <<"P", "u", "r", "c", "h", "a", "s", "e", "d">>

\* Line 218: the options of the Status selectbox
StatusOptions == {Listed, UnderContract, Purchased}

\* The billing periods tried, of the months 1..12 (line 188) and the years
\* 2020..2030 (lines 193-194); the defaults are today's month and year.
BillingMonths == {3, 4}
BillingYears == {2024, 2025}
NowMonth == 3
NowYear == 2025

Lot == <<"L", "o", "t">>
TX == <<"T", "X">>
Polk == <<"P", "o", "l", "k">>

\* The leads an export is made of: a complete listing, a listing whose date
\* is written month first, a purchase without an MLS number, a blank line,
\* and a listing whose date is no date and whose MLS cell holds one space.
Leads ==
    << [display_name |-> Lot \o <<" ">> \o APN \o <<" ", "1", "2", "-", "3">>,
        status_label |-> Listed,
        listing_date |-> <<"2", "0", "2", "5", "-", "0", "3", "-", "0", "7">>,
        mls |-> <<"M", "7">>, state |-> TX, county |-> Polk,
        apn |-> <<"1", "2", "-", "3">>],
       [display_name |-> Lot, status_label |-> Listed,
        listing_date |-> <<"0", "3", "/", "0", "9", "/", "2", "0", "2", "5">>,
        mls |-> <<"M", "8">>, state |-> TX, county |-> NaN, apn |-> NaN],
       [display_name |-> Lot, status_label |-> Purchased,
        listing_date |-> <<"2", "0", "2", "5", "-", "0", "3", "-", "1", "5">>,
        mls |-> NaN, state |-> TX, county |-> Polk, apn |-> NaN],
       NoRow,
       [display_name |-> Lot, status_label |-> Listed,
        listing_date |-> <<"T", "B", "D">>,
        mls |-> <<" ">>, state |-> TX, county |-> Polk, apn |-> NaN] >>

\* every sequence of at most n leads, each lead named by its place in Leads
RECURSIVE Tables(_)
Tables(n) ==
    IF n = 0 THEN {<<>>}
    ELSE Tables(n - 1)
         \cup {Append(t, l) : t \in {u \in Tables(n - 1) : Len(u) = n - 1},
                              l \in 1..Len(Leads)}

\* pd.read_csv (line 166): the rows of a file
read_csv(file) == [j \in 1..Len(file.rows) |-> Leads[file.rows[j]]]

ColStatus == "primary_opportunity_status_label"
ColDate == "custom.Asset_MLS_Listing_Date"
ColMls == "custom.Asset_MLS#"

\* A file: whether pd.read_csv can read it, which of the three filter
\* columns it has (the other columns are in every export), and its rows.
NoFile == [present |-> FALSE, readable |-> FALSE, columns |-> {}, rows |-> <<>>]

Files ==
    [present : {TRUE}, readable : {TRUE}, columns : SUBSET {ColStatus, ColDate, ColMls},
     rows : Tables(MaxRows)]
    \cup {[present |-> TRUE, readable |-> FALSE, columns |-> {}, rows |-> <<>>]}

\* Lines 187-196, 215-224: the widgets as a fresh page shows them
DefaultWidgets ==
    [filter_by_status |-> TRUE, status_filter |-> Listed, filter_by_date |-> TRUE,
     filter_mls_only |-> TRUE, billing_month |-> NowMonth, billing_year |-> NowYear]

----------------------------------------------------------------------------
(* Lines 226-248: the filters. filtered_df is the sequence of the index    *)
(* labels (row positions of df) that are left.                             *)

\* Line 231
FilterStatus(df, idx, status) ==
    SelectSeq(idx, LAMBDA i : df[i].status_label = status)

\* the first cell of a column that is a date string at all, 0 if none
RECURSIVE first_non_null(_, _)
first_non_null(col, k) ==
    IF k > Len(col) THEN 0
    ELSE IF ~IsNullDate(col[k]) THEN k
    ELSE first_non_null(col, k + 1)

\* the format of the cell at k, none when there is no such cell
FormatAt(col, k) == IF k = 0 THEN FmtNone ELSE guess_datetime_format(col[k])

\* every cell read in fmt, or each on its own when there is no format
ReadColumn(col, fmt) ==
    [j \in 1..Len(col) |->
        IF IsNullDate(col[j]) THEN NaT
        ELSE IF fmt # FmtNone THEN strptime(col[j], fmt)
        ELSE parse_one(col[j])]

\* Line 237: pd.to_datetime(column, errors='coerce'). pandas 2 guesses the
\* format of the first non-null cell and reads every cell in that format,
\* cell by cell only when it can guess none; pandas 1 reads cell by cell.
to_datetime(col, infer) ==
    ReadColumn(col, IF infer THEN FormatAt(col, first_non_null(col, 1)) ELSE FmtNone)

\* Lines 240-241
DateMask(dt, billing_month, billing_year) ==
    dt # NaT /\ dt.month = billing_month /\ dt.year = billing_year

\* Line 242: the rows of filtered_df whose listing_date_dt passes the mask
Masked(idx, listing_date_dt, billing_month, billing_year) ==
    SelectSeq(idx, LAMBDA i :
        \E j \in 1..Len(idx) :
            idx[j] = i /\ DateMask(listing_date_dt[j], billing_month, billing_year))

\* Lines 237-242
FilterDate(df, idx, billing_month, billing_year, infer) ==
    Masked(idx, to_datetime([j \in 1..Len(idx) |-> df[idx[j]].listing_date], infer),
           billing_month, billing_year)

\* Line 247
FilterMls(df, idx) ==
    SelectSeq(idx, LAMBDA i : notna(df[i].mls) /\ df[i].mls # <<>>)

\* Lines 230-231: the status filter when its checkbox is ticked and its
\* column is in the file, else filtered_df as it is
StatusStage(df, columns, w, idx) ==
    IF w.filter_by_status /\ ColStatus \in columns
    THEN FilterStatus(df, idx, w.status_filter) ELSE idx

\* Lines 235-242
DateStage(df, columns, w, infer, idx) ==
    IF w.filter_by_date /\ ColDate \in columns
    THEN FilterDate(df, idx, w.billing_month, w.billing_year, infer) ELSE idx

\* Lines 246-247
MlsStage(df, columns, w, idx) ==
    IF w.filter_mls_only /\ ColMls \in columns
    THEN FilterMls(df, idx) ELSE idx

StageStatus == "status"
StageDate == "date"
StageMls == "mls"

Stage(name, df, columns, w, infer, idx) ==
    IF name = StageStatus THEN StatusStage(df, columns, w, idx)
    ELSE IF name = StageDate THEN DateStage(df, columns, w, infer, idx)
    ELSE MlsStage(df, columns, w, idx)

\* the stages applied one after the other, the first of order first
RECURSIVE ApplyFilters(_, _, _, _, _, _)
ApplyFilters(order, df, columns, w, infer, idx) ==
    IF order = <<>> THEN idx
    ELSE ApplyFilters(Tail(order), df, columns, w, infer,
                      Stage(Head(order), df, columns, w, infer, idx))

----------------------------------------------------------------------------
(* One run of the script (lines 161-304): what it puts on the page. The    *)
(* money on the page, the unit price of each row and the two totals, is    *)
(* computed in the section on floats, further down.                        *)

\* Line 176: the company billed, unless changed
DefaultCompany == <<"R", "L", "V", "2", "2", " ", "L", "L", "C">>

\* Line 48: the header row
TableHeader(company_name) ==
    <<<<"D", "a", "t", "e">>, <<"M", "L", "S">>,
      <<"P", "r", "o", "p", "e", "r", "t", "y">>, company_name>>

\* the place of the first row whose iteration raises, 0 if none does
RECURSIVE FirstRaise(_, _)
FirstRaise(cells, j) ==
    IF j > Len(cells) THEN 0
    ELSE IF cells[j].error # NoError THEN j
    ELSE FirstRaise(cells, j + 1)

\* Lines 48-94, the loop run to the row at bad, where it raises, or to its
\* end: table_data, each row without its fourth cell, the unit price
Invoice(cells, bad, company_name) ==
    IF bad # 0
    THEN [error |-> cells[bad].error, table_data |-> <<>>]
    ELSE [error |-> NoError,
          table_data |-> <<TableHeader(company_name)>>
                         \o [j \in 1..Len(cells) |->
                                <<cells[j].date_str, cells[j].mls_number,
                                  cells[j].property_desc>>]]

InvoiceOf(cells, company_name) == Invoice(cells, FirstRaise(cells, 1), company_name)

\* Lines 18-158
generate_invoice_pdf(rows, company_name) ==
    InvoiceOf([j \in 1..Len(rows) |-> TableRow(rows[j])], company_name)

\* Line 250 with df for filtered_df
IsEmptyResult_OfFile(df, filtered_df) == Len(df) = 0

\* Line 250
IsEmptyResult(df, filtered_df) == Len(filtered_df) = 0

\* Line 270: selecting the preview's columns raises KeyError for a column
\* the file does not have
PreviewRaises(columns) == ~({ColMls, ColDate} \subseteq columns)

Blank ==
    [messages |-> {}, filtered |-> FALSE, date_in |-> <<>>, date_out |-> <<>>,
     filtered_df |-> <<>>, preview |-> FALSE, button |-> FALSE,
     generate_called |-> FALSE, generate_arg |-> <<>>, table_data |-> <<>>,
     download |-> FALSE]

\* the index labels of df
Index(df) == [i \in 1..Len(df) |-> i]

\* Lines 168, 209, 232, 243, 248: the messages down to the last filter
Shown(columns, w) ==
    {"success: loaded"}
    \cup (IF ColMls \notin columns \/ ColDate \notin columns
          THEN {"warning: columns"} ELSE {})
    \cup (IF w.filter_by_status /\ ColStatus \in columns
          THEN {"info: status"} ELSE {})
    \cup (IF w.filter_by_date /\ ColDate \in columns
          THEN {"info: date"} ELSE {})
    \cup (IF w.filter_mls_only /\ ColMls \in columns
          THEN {"info: mls"} ELSE {})

\* Lines 279-295: the button pressed
Generated(page, filtered_df, pdf) ==
    IF pdf.error # NoError
    THEN [page EXCEPT !.messages = @ \cup {"error"},
                      !.generate_called = TRUE, !.generate_arg = filtered_df]
    ELSE [page EXCEPT !.messages = @ \cup {"success: invoice"},
                      !.generate_called = TRUE, !.generate_arg = filtered_df,
                      !.table_data = pdf.table_data, !.download = TRUE]

\* Lines 253-295: the preview, and the invoice when the button was pressed
Preview(df, columns, page, filtered_df, clicked) ==
    IF PreviewRaises(columns)
    THEN [page EXCEPT !.messages = @ \cup {"metrics", "error"}]
    ELSE IF ~clicked
    THEN [page EXCEPT !.messages = @ \cup {"metrics"}, !.preview = TRUE, !.button = TRUE]
    ELSE Generated([page EXCEPT !.messages = @ \cup {"metrics"},
                                !.preview = TRUE, !.button = TRUE],
                   filtered_df,
                   generate_invoice_pdf([j \in 1..Len(filtered_df) |-> df[filtered_df[j]]],
                                        DefaultCompany))

\* Lines 250-295
Result(df, columns, page, filtered_df, clicked) ==
    IF IsEmptyResult(df, filtered_df)
    THEN [page EXCEPT !.messages = @ \cup {"warning: no leads"}]
    ELSE Preview(df, columns, page, filtered_df, clicked)

\* Lines 250-295, filtered_df as each filter left it
AfterMls(df, columns, w, clicked, s1, s2, filtered_df) ==
    Result(df, columns,
           [Blank EXCEPT !.messages = Shown(columns, w), !.filtered = TRUE,
                         !.date_in = s1, !.date_out = s2, !.filtered_df = filtered_df],
           filtered_df, clicked)

\* Lines 245-295
AfterDate(df, columns, w, clicked, s1, s2) ==
    AfterMls(df, columns, w, clicked, s1, s2, MlsStage(df, columns, w, s2))

\* Lines 234-295
AfterStatus(df, columns, w, infer, clicked, s1) ==
    AfterDate(df, columns, w, clicked, s1, DateStage(df, columns, w, infer, s1))

\* Lines 166-295: the file read
Loaded(df, columns, w, infer, clicked) ==
    AfterStatus(df, columns, w, infer, clicked, StatusStage(df, columns, w, Index(df)))

\* Lines 161-304
Script(file, w, infer, clicked) ==
    IF ~file.present THEN [Blank EXCEPT !.messages = {"info: upload"}]
    ELSE IF ~file.readable THEN [Blank EXCEPT !.messages = {"error"}]
    ELSE Loaded(read_csv(file), file.columns, w, infer, clicked)

----------------------------------------------------------------------------
(* The page: each action is one interaction and the rerun it triggers.     *)

\* the widgets are on the page when the file was read (lines 163-224)
WidgetsShown == uploaded_file.present /\ uploaded_file.readable

\* the Status selectbox is on the page (line 216); off the page it forgets its value
StatusShown(file, w) == w.filter_by_status /\ ColStatus \in file.columns

Rerun(file, w, clicked) ==
    /\ uploaded_file' = file
    /\ widgets' = IF StatusShown(file, w) THEN w ELSE [w EXCEPT !.status_filter = Listed]
    /\ out' = Script(file, widgets', infer_format, clicked)
    /\ UNCHANGED <<infer_format, rowVars, totalVars>>

UploadFile ==
    /\ ~uploaded_file.present
    /\ \E f \in Files : Rerun(f, DefaultWidgets, FALSE)

RemoveFile ==
    /\ uploaded_file.present
    /\ Rerun(NoFile, DefaultWidgets, FALSE)

ToggleStatus ==
    /\ WidgetsShown
    /\ Rerun(uploaded_file, [widgets EXCEPT !.filter_by_status = ~@], FALSE)

SelectStatus ==
    /\ WidgetsShown
    /\ StatusShown(uploaded_file, widgets)
    /\ \E st \in StatusOptions : Rerun(uploaded_file, [widgets EXCEPT !.status_filter = st], FALSE)

ToggleDate ==
    /\ WidgetsShown
    /\ Rerun(uploaded_file, [widgets EXCEPT !.filter_by_date = ~@], FALSE)

ToggleMls ==
    /\ WidgetsShown
    /\ Rerun(uploaded_file, [widgets EXCEPT !.filter_mls_only = ~@], FALSE)

SelectMonth ==
    /\ WidgetsShown
    /\ \E m \in BillingMonths : Rerun(uploaded_file, [widgets EXCEPT !.billing_month = m], FALSE)

SelectYear ==
    /\ WidgetsShown
    /\ \E y \in BillingYears : Rerun(uploaded_file, [widgets EXCEPT !.billing_year = y], FALSE)

\* Line 279: the button is pressed; st.button returns True in the rerun
ClickGenerate ==
    /\ out.button
    /\ Rerun(uploaded_file, widgets, TRUE)

\* Line 290: the download button is pressed; the rerun's st.button returns False
ClickDownload ==
    /\ out.download
    /\ Rerun(uploaded_file, widgets, FALSE)

----------------------------------------------------------------------------
(* Python floats. A non-negative float is sig * 2^exp: sig a natural       *)
(* number written in binary, least significant bit first and without       *)
(* leading zeros (<<>> is 0), so that the 53 bits of a double fit whatever  *)
(* the width of the checker's integers.                                    *)

\* the bits of the significand of a double
Precision == 53

RECURSIVE ToBits(_)
ToBits(n) == IF n = 0 THEN <<>> ELSE <<n % 2>> \o ToBits(n \div 2)

RECURSIVE ToInt(_)
ToInt(b) == IF b = <<>> THEN 0 ELSE b[1] + 2 * ToInt(Tail(b))

\* a + b + carry
RECURSIVE BitsAdd(_, _, _)
BitsAdd(a, b, carry) ==
    IF a = <<>> /\ b = <<>> THEN (IF carry = 1 THEN <<1>> ELSE <<>>)
    ELSE LET x == IF a = <<>> THEN 0 ELSE a[1]
             y == IF b = <<>> THEN 0 ELSE b[1]
             ta == IF a = <<>> THEN <<>> ELSE Tail(a)
             tb == IF b = <<>> THEN <<>> ELSE Tail(b)
         IN  <<(x + y + carry) % 2>> \o BitsAdd(ta, tb, (x + y + carry) \div 2)

\* a * 2^k
ShiftLeft(a, k) == IF a = <<>> THEN <<>> ELSE [i \in 1..k |-> 0] \o a

\* a * n
RECURSIVE BitsMul(_, _)
BitsMul(a, n) ==
    IF n = 0 \/ a = <<>> THEN <<>>
    ELSE IF n % 2 = 0 THEN ShiftLeft(BitsMul(a, n \div 2), 1)
    ELSE BitsAdd(a, ShiftLeft(BitsMul(a, n \div 2), 1), 0)

\* a / 2^k rounded to the nearest integer, a tie to the even one
ShiftRightRound(a, k) ==
    LET kept == IF k >= Len(a) THEN <<>> ELSE SubSeq(a, k + 1, Len(a))
        half == k >= 1 /\ k <= Len(a) /\ a[k] = 1
        sticky == \E i \in 1..(k - 1) : i <= Len(a) /\ a[i] = 1
        odd == kept # <<>> /\ kept[1] = 1
    IN  IF half /\ (sticky \/ odd) THEN BitsAdd(kept, <<1>>, 0) ELSE kept

\* the significand written as hexadecimal digits, the most significant first
RECURSIVE FromHex(_)
FromHex(h) ==
    IF h = <<>> THEN <<>>
    ELSE BitsAdd(ToBits(h[Len(h)]), ShiftLeft(FromHex(SubSeq(h, 1, Len(h) - 1)), 4), 0)

Float(h, e) == [sig |-> FromHex(h), exp |-> e]

\* x.sig cut by k bits to r: one bit more when rounding up carried
Rounded(x, k, r) ==
    IF Len(r) > Precision
    THEN [sig |-> Tail(r), exp |-> x.exp + k + 1]
    ELSE [sig |-> r, exp |-> x.exp + k]

\* the nearest double to sig * 2^exp, a tie to the even significand
RoundToDouble(x) ==
    IF Len(x.sig) <= Precision THEN x
    ELSE Rounded(x, Len(x.sig) - Precision, ShiftRightRound(x.sig, Len(x.sig) - Precision))

\* n * x of an int n and a float x: the exact product, rounded to a double
FloatMul(n, x) == RoundToDouble([sig |-> BitsMul(x.sig, n), exp |-> x.exp])

\* the same number with an odd significand: two floats are equal numbers
\* exactly when their reduced forms are equal
RECURSIVE Reduced(_)
Reduced(x) ==
    IF x.sig = <<>> THEN [sig |-> <<>>, exp |-> 0]
    ELSE IF x.sig[1] = 0 THEN Reduced([sig |-> Tail(x.sig), exp |-> x.exp + 1])
    ELSE x

\* c * 2^e rounded to the nearest integer, a tie to the even one
ToNearest(c, e) ==
    IF e >= 0 THEN ToInt(ShiftLeft(c, e)) ELSE ToInt(ShiftRightRound(c, 0 - e))

\* x in hundredths, rounded to the nearest, a tie to the even one
Cents(x) == ToNearest(BitsMul(x.sig, 100), x.exp)

TwoDigits(n) == <<DigitChars[(n \div 10) + 1], DigitChars[(n % 10) + 1]>>

\* f"{n:,}" of a natural number: its digits in groups of three
RECURSIVE Grouped(_)
Grouped(n) ==
    IF n < 1000 THEN str_int(n)
    ELSE Grouped(n \div 1000) \o <<",">>
         \o <<DigitChars[((n % 1000) \div 100) + 1]>> \o TwoDigits(n % 100)

Amount(dollars, cents) == <<"$">> \o dollars \o <<".">> \o TwoDigits(cents)

PlainAmount(c) == Amount(str_int(c \div 100), c % 100)

GroupedAmount(c) == Amount(Grouped(c \div 100), c % 100)

\* f"${x:.2f}" (lines 92, 138)
Dollars(x) == PlainAmount(Cents(x))

\* f"${x:,.2f}" (line 264)
DollarsGrouped(x) == GroupedAmount(Cents(x))

\* Unit prices st.number_input can return (line 180: a float, at least 0.0,
\* 200.0 unless changed): 0.0, 0.1, 0.5, 10.0, 19.99, 149.95, 200.0
Price0 == [sig |-> <<>>, exp |-> 0]
Price010 == Float(<<1, 9, 9, 9, 9, 9, 9, 9, 9, 9, 9, 9, 9, 10>>, -56)
Price050 == Float(<<1>>, -1)
Price10 == Float(<<5>>, 1)
Price1999 == Float(<<1, 3, 15, 13, 7, 0, 10, 3, 13, 7, 0, 10, 3, 13>>, -48)
Price14995 == Float(<<1, 2, 11, 14, 6, 6, 6, 6, 6, 6, 6, 6, 6, 6>>, -45)
Price200 == Float(<<12, 8>>, 0)

Prices == {Price0, Price010, Price050, Price10, Price1999, Price14995, Price200}

\* Line 92: the fourth cell of every row
PriceCell(price) == Dollars(price)

\* Line 97
InvoiceTotal(n, price) == FloatMul(n, price)

\* Line 263
PreviewTotal(n, price) == FloatMul(n, price)

----------------------------------------------------------------------------
(* The specifications.                                                     *)

NoTotal == [shown |-> FALSE, amount |-> Price0, text |-> <<>>]

NoInvoiceTotal == [shown |-> FALSE, amount |-> Price0, text |-> <<>>, price_cell |-> <<>>]

AppIdle ==
    /\ uploaded_file = NoFile
    /\ widgets = DefaultWidgets
    /\ out = Script(NoFile, DefaultWidgets, FALSE, FALSE)

RowIdle == arg_row = NoRow /\ rendered = Pending

TotalIdle ==
    /\ n_listings = 0
    /\ price_per_listing = Price200
    /\ preview_total = NoTotal
    /\ invoice_total = NoInvoiceTotal

\* The page: no file yet; the installed pandas is either kind.
Init ==
    /\ AppIdle
    /\ infer_format \in BOOLEAN
    /\ RowIdle
    /\ TotalIdle

Next ==
    \/ UploadFile
    \/ RemoveFile
    \/ ToggleStatus
    \/ SelectStatus
    \/ ToggleDate
    \/ ToggleMls
    \/ SelectMonth
    \/ SelectYear
    \/ ClickGenerate
    \/ ClickDownload

Spec == Init /\ [][Next]_vars

\* One iteration of generate_invoice_pdf's loop, on every row of RowInputs.
InitRow ==
    /\ AppIdle
    /\ infer_format = FALSE
    /\ arg_row \in RowInputs
    /\ rendered = Pending
    /\ TotalIdle

RenderRow ==
    /\ ~rendered.done
    /\ rendered' = Rendered(arg_row, DateCell(arg_row.listing_date))
    /\ UNCHANGED <<arg_row, appVars, totalVars>>

NextRow == RenderRow

SpecRow == InitRow /\ [][NextRow]_vars

\* The money of one pass: the preview's total (line 263), then, the button
\* pressed, the invoice's unit price cell and total (lines 92, 97), of the
\* same filtered_df and unit price.
InitTotal ==
    /\ AppIdle
    /\ infer_format = FALSE
    /\ RowIdle
    /\ n_listings \in 1..MaxCount
    /\ price_per_listing \in Prices
    /\ preview_total = NoTotal
    /\ invoice_total = NoInvoiceTotal

ShowPreviewTotal ==
    /\ ~preview_total.shown
    /\ preview_total' =
           [shown |-> TRUE, amount |-> PreviewTotal(n_listings, price_per_listing),
            text |-> DollarsGrouped(PreviewTotal(n_listings, price_per_listing))]
    /\ UNCHANGED <<n_listings, price_per_listing, invoice_total, appVars, rowVars>>

WriteInvoiceTotal ==
    /\ preview_total.shown
    /\ ~invoice_total.shown
    /\ invoice_total' =
           [shown |-> TRUE, amount |-> InvoiceTotal(n_listings, price_per_listing),
            text |-> Dollars(InvoiceTotal(n_listings, price_per_listing)),
            price_cell |-> PriceCell(price_per_listing)]
    /\ UNCHANGED <<n_listings, price_per_listing, preview_total, appVars, rowVars>>

NextTotal == ShowPreviewTotal \/ WriteInvoiceTotal

SpecTotal == InitTotal /\ [][NextTotal]_vars

----------------------------------------------------------------------------
(* The properties of the page, checked under Spec.                         *)

\* the row of the uploaded file with index label i
RowAt(i) == Leads[uploaded_file.rows[i]]

\* a pass that read the file and ran the filters
Filtered == uploaded_file.present /\ uploaded_file.readable /\ out.filtered

\* C1: when the file has the MLS column and the MLS filter is on, every row
\* left in filtered_df has an MLS number that is present and is not empty
\* once its whitespace is trimmed.
C1_MlsNonEmptyAfterTrim ==
    (Filtered /\ widgets.filter_mls_only /\ ColMls \in uploaded_file.columns)
        => \A j \in 1..Len(out.filtered_df) :
               /\ notna(RowAt(out.filtered_df[j]).mls)
               /\ strip(RowAt(out.filtered_df[j]).mls) # <<>>

\* the listing date of row i, read on its own, is in the billing month
InBillingMonth(i) ==
    DateMask(to_datetime_cell(RowAt(i).listing_date),
             widgets.billing_month, widgets.billing_year)

\* C2: when the file has the listing date column and the date filter is on,
\* a row passes the date filter if and only if its listing date parses to a
\* date of the billing month and year; a row whose date is missing or does
\* not parse never passes.
C2_DateFilterIffMonthYear ==
    (Filtered /\ widgets.filter_by_date /\ ColDate \in uploaded_file.columns)
        => out.date_out = SelectSeq(out.date_in, InBillingMonth)

\* the six orders of the three filters
Orders ==
    {<<StageStatus, StageDate, StageMls>>, <<StageStatus, StageMls, StageDate>>,
     <<StageDate, StageStatus, StageMls>>, <<StageDate, StageMls, StageStatus>>,
     <<StageMls, StageStatus, StageDate>>, <<StageMls, StageDate, StageStatus>>}

\* filtered_df had the filters run in this order
FilteredIn(order, df) ==
    ApplyFilters(order, df, uploaded_file.columns, widgets, infer_format, Index(df))

\* C3: whichever filters are on, running the status, date and MLS filters in
\* any of their six orders leaves the rows, in the order, that the script's
\* own order (status, date, MLS) leaves.
C3_FilterOrderIrrelevant ==
    Filtered => \A order \in Orders :
                    FilteredIn(order, read_csv(uploaded_file)) = out.filtered_df

\* the file lacks one of the three columns the filters read
LacksColumn == uploaded_file.columns # {ColStatus, ColDate, ColMls}

\* C4: when the file lacks one or more of the status, listing date and MLS
\* columns, the pass does not end in an error, a warning about the columns
\* is shown, the filter of a missing column leaves filtered_df alone, and
\* the pass ends in the warning of an empty result or in the preview.
C4_MissingColumnDegrades ==
    (Filtered /\ LacksColumn)
        => /\ "error" \notin out.messages
           /\ "warning: columns" \in out.messages
           /\ (ColDate \notin uploaded_file.columns => out.date_out = out.date_in)
           /\ (ColMls \notin uploaded_file.columns => out.filtered_df = out.date_out)
           /\ ("warning: no leads" \in out.messages \/ out.preview)

\* C5: a pass whose filtered_df is empty ends with the warning of an empty
\* result, without a call of generate_invoice_pdf and without a download;
\* and generate_invoice_pdf is only ever called with a filtered_df that is
\* not empty.
C5_EmptyResultSkipsInvoice ==
    /\ (Filtered /\ out.filtered_df = <<>>)
           => /\ "warning: no leads" \in out.messages
              /\ ~out.generate_called
              /\ ~out.download
              /\ ~out.button
    /\ out.generate_called => out.generate_arg # <<>>

\* C5 happens: the file has rows, and the filters leave none of them
C5_Witness ==
    /\ Filtered
    /\ uploaded_file.rows # <<>>
    /\ out.filtered_df = <<>>
    /\ "warning: no leads" \in out.messages

\* the row of the table for a record whose fields are all missing
BlankCells == <<<<>>, <<>>, <<>>>>

\* C6: every call of generate_invoice_pdf, also one with records whose
\* fields are all missing, makes a table of the header row and then one row
\* for each record of filtered_df, in its order; a record with every field
\* missing gets a row of blank cells and does not make the call fail.
C6_OneRowPerRecord ==
    out.generate_called
        => /\ "error" \notin out.messages
           /\ Len(out.table_data) = Len(out.generate_arg) + 1
           /\ out.table_data[1] = TableHeader(DefaultCompany)
           /\ \A j \in 1..Len(out.generate_arg) :
                  RowAt(out.generate_arg[j]) = NoRow
                      => out.table_data[j + 1] = BlankCells
----------------------------------------------------------------------------
(* The properties of one row of the table, checked under SpecRow.          *)

Space == <<" ">>

\* the first token of a string, the empty string if it has none
FirstToken(s) == IF split_ws(s) = <<>> THEN <<>> ELSE split_ws(s)[1]

\* C7: making the date cell never raises, whatever the listing date is: a
\* date that parses gives month/day/year, a value that is there and does not
\* parse, the empty and the whitespace-only string too, gives its first
\* token or the empty string, and a missing value gives the empty string.
C7_DateCellNeverRaises ==
    rendered.done
        => /\ rendered.date_cell.error = NoError
           /\ ~notna(arg_row.listing_date) => rendered.date_cell.date_str = <<>>
           /\ (notna(arg_row.listing_date)
                   /\ to_datetime_cell(arg_row.listing_date) = NaT)
                  => rendered.date_cell.date_str = FirstToken(arg_row.listing_date)

\* C8: the property description of every row has no space at its start, no
\* space at its end and no two spaces in a row, whatever whitespace the
\* state, county, display name and APN cells hold.
C8_NoStraySpaces ==
    (rendered.done /\ rendered.cells.error = NoError
                   /\ rendered.cells.property_desc # <<>>)
        => /\ Head(rendered.cells.property_desc) # Space[1]
           /\ rendered.cells.property_desc[Len(rendered.cells.property_desc)] # Space[1]
           /\ \A i \in 1..(Len(rendered.cells.property_desc) - 1) :
                  ~(rendered.cells.property_desc[i] = Space[1]
                        /\ rendered.cells.property_desc[i + 1] = Space[1])

\* "APN" stands in s at place i
ApnAt(s, i) == i + 2 <= Len(s) /\ SubSeq(s, i, i + 2) = APN

\* place i is the first where "APN" stands in s
FirstApnAt(s, i) == ApnAt(s, i) /\ \A k \in 1..(i - 1) : ~ApnAt(s, k)

\* t is the end of s
EndsWith(s, t) ==
    Len(t) <= Len(s) /\ SubSeq(s, Len(s) - Len(t) + 1, Len(s)) = t

\* "APN# " and the APN of the row, after the base name if there is one
ApnEnding(base_name, apn) ==
    (IF base_name = <<>> THEN <<>> ELSE base_name \o Space)
        \o APN \o <<"#", " ">> \o apn

\* C9: the base name of a row is its display name as it is when that has no
\* "APN" in it, and otherwise the text before the first "APN" with the
\* whitespace around it trimmed; when the row has an APN, the description
\* ends with "APN# " and the APN, after the base name.
C9_BaseNameAndApn ==
    (rendered.done /\ rendered.cells.error = NoError)
        => /\ (\A i \in 1..Len(arg_row.display_name) : ~ApnAt(arg_row.display_name, i))
                  => rendered.cells.base_name = arg_row.display_name
           /\ \A i \in 1..Len(arg_row.display_name) :
                  FirstApnAt(arg_row.display_name, i)
                      => rendered.cells.base_name
                             = strip(SubSeq(arg_row.display_name, 1, i - 1))
           /\ Truthy(arg_row.apn)
                  => EndsWith(rendered.cells.property_desc,
                              ApnEnding(rendered.cells.base_name, arg_row.apn))

\* C9 happens: a row with "x APN" in its display name and with an APN
C9_Witness ==
    /\ rendered.done
    /\ rendered.cells.error = NoError
    /\ arg_row.display_name = <<"x", " ">> \o APN
    /\ Truthy(arg_row.apn)
    /\ rendered.cells.base_name = <<"x">>

(* The property of the totals, checked under SpecTotal.                    *)

\* n times x, every bit of it
ExactProduct(n, x) == Reduced([sig |-> BitsMul(x.sig, n), exp |-> x.exp])

\* C10: the total of the preview and the total of the invoice are both the
\* number of rows of filtered_df times the unit price exactly, nothing
\* rounded before the amount is formatted for display.
C10_TotalsExact ==
    /\ preview_total.shown
           => Reduced(preview_total.amount) = ExactProduct(n_listings, price_per_listing)
    /\ invoice_total.shown
           => Reduced(invoice_total.amount) = ExactProduct(n_listings, price_per_listing)
====
